---- MODULE Spec2Model ----
(***************************************************************************)
(* Model of the Logger of src/index.ts (lines 1-430, the current variant). *)
(*                                                                         *)
(* One Logger instance, its ordered transport list, the emission calls     *)
(* made on it and the totally ordered trace of what the logger did to the  *)
(* outside world (console.log, console.error, transport.log).  `second`    *)
(* is a second instance of the same program, undefined until it is         *)
(* constructed (specification SpecInstances).  `registered` is the history *)
(* of the arguments of the addTransport calls, in call order.              *)
(*                                                                         *)
(* log() is an async function: it runs synchronously up to its first       *)
(* `await`, and each later segment runs atomically when the awaited        *)
(* transport result has settled.  One action models one such segment.      *)
(***************************************************************************)
EXTENDS Integers, Sequences, FiniteSets, TLC

VARIABLES logger, calls, events, second, registered

vars == <<logger, calls, events, second, registered>>

(***************************************************************************)
(* Bounds of the model.                                                    *)
(***************************************************************************)
MaxCalls == 2
MaxTransports == 2

(***************************************************************************)
(* JavaScript values: undefined, strings and objects, with `typeof` and    *)
(* truthiness.                                                             *)
(***************************************************************************)
Undef == [t |-> "undefined"]
Str(s) == [t |-> "string", v |-> s]
Obj(o) == [t |-> "object", v |-> o]

TypeOf(x) == x.t

Truthy(x) ==
    CASE x.t = "undefined" -> FALSE
      [] x.t = "string"    -> x.v # ""
      [] x.t = "object"    -> TRUE

(***************************************************************************)
(* Colour specifiers are strings, kept as sequences of characters so that  *)
(* the hex-colour grammar is computed and not assumed.                     *)
(***************************************************************************)
HexDigits == {"0","1","2","3","4","5","6","7","8","9",
              "a","b","c","d","e","f","A","B","C","D","E","F"}

Green   == <<"#","0","0","F","F","0","0">>
Blue    == <<"#","0","0","0","0","F","F">>
Red     == <<"#","F","F","0","0","0","0">>
Gray    == <<"#","D","3","D","3","D","3">>
Cyan    == <<"#","0","0","F","F","F","F">>
Yellow  == <<"#","F","F","F","F","0","0">>
Magenta == <<"#","F","F","0","0","F","F">>
White   == <<"#","F","F","F","F","F","F">>
Orange  == <<"#","F","F","4","0","0","0">>

\* the string "undefined", which is what a missing registry entry is
\* coerced to when it is tested against the grammar
UndefinedText == <<"u","n","d","e","f","i","n","e","d">>

defaultLogLevels ==
    [info |-> Green, debug |-> Blue, error |-> Red, http |-> Gray,
     notice |-> Cyan, warn |-> Yellow, crit |-> Magenta, ignore |-> White,
     danger |-> Orange]

isValidHexColor(hex) ==
    /\ Len(hex) \in {4, 5, 7, 9}
    /\ hex[1] = "#"
    /\ \A k \in 2..Len(hex) : hex[k] \in HexDigits

\* the colour names of the rendering backend that the model's
\* configurations use
NotAColor == <<"n","o","t","a","c","o","l","o","r">>
RedName   == <<"r","e","d">>
ChalkMethods == {RedName}

\* String.prototype.toUpperCase on the level names of the model
toUpperCase(level) ==
    CASE level = "info"   -> "INFO"
      [] level = "debug"  -> "DEBUG"
      [] level = "error"  -> "ERROR"
      [] level = "http"   -> "HTTP"
      [] level = "notice" -> "NOTICE"
      [] level = "warn"   -> "WARN"
      [] level = "crit"   -> "CRIT"
      [] level = "ignore" -> "IGNORE"
      [] level = "danger" -> "DANGER"
      [] level = "trace"  -> "TRACE"

\* A rendered string is the sequence of its runs of text, each with the
\* colour applied to it (<< >> for plain text).
Plain(text) == [text |-> text, style |-> << >>]

(***************************************************************************)
(* Construction.                                                           *)
(***************************************************************************)
\* the spread written the other way round: { ...customLogLevels,
\* ...defaultLogLevels }
MergeDefaultsWin(defaults, custom) ==
    [k \in DOMAIN defaults \cup DOMAIN custom |->
        IF k \in DOMAIN defaults THEN defaults[k] ELSE custom[k]]

\* { ...defaultLogLevels, ...customLogLevels }
Merge(defaults, custom) ==
    [k \in DOMAIN defaults \cup DOMAIN custom |->
        IF k \in DOMAIN custom THEN custom[k] ELSE defaults[k]]

Constructor(args) ==
    [name            |-> args.name,
     debugMode       |-> args.debugMode,
     formatFunction  |-> args.formatFunction,
     debugLevels     |-> args.debugLevels,
     customLogLevels |-> args.customLogLevels,
     logLevels       |-> Merge(defaultLogLevels, args.customLogLevels),
     transports      |-> << >>]

\* Object.values(this.logLevels): the default keys in declaration order,
\* then the keys that customLogLevels introduces
DefaultKeys == <<"info", "debug", "error", "http", "notice", "warn", "crit",
                 "ignore", "danger">>
CustomKeys == <<"trace">>

KeysOf(custom) ==
    DefaultKeys \o SelectSeq(CustomKeys, LAMBDA k : k \in DOMAIN custom)

\* the warning the constructor prints for one invalid colour
Warning(color) ==
    [kind |-> "console.log", call |-> 0,
     line |-> <<Plain("Invalid hex color: ")>>, color |-> color,
     arg  |-> Str("#00FF00")]

RECURSIVE ConstructorWarnings(_, _)
ConstructorWarnings(levels, keys) ==
    IF keys = << >> THEN << >>
    ELSE (IF isValidHexColor(levels[Head(keys)]) THEN << >>
          ELSE <<Warning(levels[Head(keys)])>>)
         \o ConstructorWarnings(levels, Tail(keys))

(***************************************************************************)
(* Formatting.                                                             *)
(***************************************************************************)
\* DateTime.now() rendered with TIME_24_WITH_SHORT_OFFSET
TimeToken == "<time>"

\* `${x}` of a string or of undefined
Text(x) == IF TypeOf(x) = "string" THEN x.v ELSE "undefined"

\* An exception travels in the place of the value that the throwing
\* expression would have produced: a run that no rendering yields.
Thrown == [text |-> "TypeError", style |-> <<"thrown">>]

\* the lookup chalk[colorOrMethod](...) without the typeof guard: calling
\* what is not a function throws
formattedLevelUnguarded(lg, level) ==
    LET colorOrMethod == IF level \in DOMAIN lg.logLevels
                         THEN lg.logLevels[level] ELSE UndefinedText
    IN  IF isValidHexColor(colorOrMethod)
        THEN [text |-> toUpperCase(level), style |-> colorOrMethod]
        ELSE IF colorOrMethod \in ChalkMethods
        THEN [text |-> toUpperCase(level), style |-> colorOrMethod]
        ELSE Thrown

\* the resolved level tag: its text and the colour applied to it
formattedLevel(lg, level) ==
    LET colorOrMethod == IF level \in DOMAIN lg.logLevels
                         THEN lg.logLevels[level] ELSE UndefinedText
    IN  IF isValidHexColor(colorOrMethod)
        THEN [text |-> toUpperCase(level), style |-> colorOrMethod]
        ELSE IF colorOrMethod \in ChalkMethods
        THEN [text |-> toUpperCase(level), style |-> colorOrMethod]
        ELSE Plain(toUpperCase(level))

\* a caller-supplied formatFunction:
\* ({level, message, name}) => `custom ${name}/${level}/${message}`
CustomFormat(a) ==
    <<Plain("custom "), Plain(Text(a.name)), Plain("/"), a.level, Plain("/"),
      Plain(Text(a.message))>>

\* the argument that getString hands to formatFunction
formatArgs(lg, level, message) ==
    [level |-> formattedLevel(lg, level), message |-> message,
     date |-> TimeToken, name |-> lg.name]

\* a getString that puts what formatFunction returns where the default
\* composition has the level tag and the message
getStringWrapsCustom(lg, level, message) ==
    IF formattedLevel(lg, level) = Thrown THEN <<Thrown>>
    ELSE <<Plain(TimeToken), Plain(" | ")>>
         \o (IF Truthy(lg.name) THEN <<Plain(lg.name.v), Plain(" | ")>>
             ELSE << >>)
         \o (IF lg.formatFunction = "custom"
             THEN CustomFormat(formatArgs(lg, level, message))
             ELSE <<formattedLevel(lg, level), Plain(":")>>
                  \o (IF Truthy(message)
                      THEN <<Plain(" "), Plain(message.v)>> ELSE << >>))

\* the default composition with the colon inside the optional message
\* segment: `${formattedLevel}${message ? ': ' + message : ''}`
getStringColonWithMessage(lg, level, message) ==
    IF formattedLevel(lg, level) = Thrown THEN <<Thrown>>
    ELSE IF lg.formatFunction = "custom"
    THEN CustomFormat(formatArgs(lg, level, message))
    ELSE <<Plain(TimeToken), Plain(" | ")>>
         \o (IF Truthy(lg.name) THEN <<Plain(lg.name.v), Plain(" | ")>>
             ELSE << >>)
         \o <<formattedLevel(lg, level)>>
         \o (IF Truthy(message)
             THEN <<Plain(":"), Plain(" "), Plain(message.v)>>
             ELSE << >>)

\* an exception raised while the tag is resolved, or by a formatFunction
\* that throws, leaves getString at once
getString(lg, level, message) ==
    IF formattedLevel(lg, level) = Thrown THEN <<Thrown>>
    ELSE IF lg.formatFunction = "throws" THEN <<Thrown>>
    ELSE IF lg.formatFunction = "custom"
    THEN CustomFormat(formatArgs(lg, level, message))
    ELSE <<Plain(TimeToken), Plain(" | ")>>
         \o (IF Truthy(lg.name) THEN <<Plain(lg.name.v), Plain(" | ")>>
             ELSE << >>)
         \o <<formattedLevel(lg, level), Plain(":")>>
         \o (IF Truthy(message) THEN <<Plain(" "), Plain(message.v)>>
             ELSE << >>)

(***************************************************************************)
(* Emission.                                                               *)
(***************************************************************************)
\* the behaviour of the three transports of the model: one whose log
\* settles normally ("ok", a void return or a promise that fulfils), one
\* whose log throws synchronously, one whose log returns a promise that
\* rejects
Transports == {"ok", "throws", "rejects"}

\* a suppression rule that forgets the built-in debug level
SuppressedOnlyDebugLevels(lg, level) ==
    (\E k \in 1..Len(lg.debugLevels) : lg.debugLevels[k] = level)
    /\ ~lg.debugMode

\* a suppression rule that forgets the configured debugLevels
SuppressedOnlyDebug(lg, level) == level = "debug" /\ ~lg.debugMode

Suppressed(lg, level) ==
    \/ (level = "debug" /\ ~lg.debugMode)
    \/ ((\E k \in 1..Len(lg.debugLevels) : lg.debugLevels[k] = level)
        /\ ~lg.debugMode)

\* The trace of a getString evaluation by call `id`: the call of the
\* caller's formatFunction, when there is one and it is reached.
FormatFunctionCall(id, a) ==
    [kind |-> "formatFunction", call |-> id, level |-> a.level,
     message |-> a.message, date |-> a.date, name |-> a.name]

Formatted(lg, id, level, message, ev) ==
    IF lg.formatFunction = "custom" /\ formattedLevel(lg, level) # Thrown
    THEN Append(ev, FormatFunctionCall(id, formatArgs(lg, level, message)))
    ELSE ev

ConsoleLog(id, line, data) ==
    [kind |-> "console.log", call |-> id, line |-> line,
     arg |-> IF Truthy(data) THEN data ELSE Str("")]

ConsoleError(id, i) ==
    [kind |-> "console.error", call |-> id,
     line |-> <<Plain("Error in log transport:")>>, index |-> i]

TransportLog(id, i, t, level, messageOrData, dataIfMessage) ==
    [kind |-> "transport.log", call |-> id, index |-> i, transport |-> t,
     level |-> level, messageOrData |-> messageOrData,
     data |-> dataIfMessage]

\* the record that log resolves with
LogRecord(level, messageOrData, dataIfMessage) ==
    [level |-> level, messageOrData |-> messageOrData,
     dataIfMessage |-> dataIfMessage]

\* the loop with the try/catch around it instead of inside it: the first
\* throw ends the fan-out
RECURSIVE FanOutCatchOutside(_, _, _, _, _)
FanOutCatchOutside(id, c, i, ts, ev) ==
    IF i > Len(ts)
    THEN [events |-> ev, i |-> i, pc |-> "done"]
    ELSE LET invoked == Append(ev, TransportLog(id, i, ts[i], c.level,
                                   c.messageOrData, c.dataIfMessage))
         IN  IF ts[i] = "throws"
             THEN [events |-> Append(invoked, ConsoleError(id, i)),
                   i |-> i + 1, pc |-> "done"]
             ELSE [events |-> invoked, i |-> i, pc |-> "await"]

\* the loop without the try/catch: a throw rejects the promise of log
RECURSIVE FanOutNoCatch(_, _, _, _, _)
FanOutNoCatch(id, c, i, ts, ev) ==
    IF i > Len(ts)
    THEN [events |-> ev, i |-> i, pc |-> "done"]
    ELSE LET invoked == Append(ev, TransportLog(id, i, ts[i], c.level,
                                   c.messageOrData, c.dataIfMessage))
         IN  IF ts[i] = "throws"
             THEN [events |-> invoked, i |-> i, pc |-> "failed"]
             ELSE [events |-> invoked, i |-> i, pc |-> "await"]

\* The loop over this.transports of emission `id`, entered at position i
\* with trace ev: invokes the transports in order until one returns
\* something to await, or the (live) list is exhausted.  A synchronous
\* throw is caught and reported within the same segment.
RECURSIVE FanOut(_, _, _, _, _)
FanOut(id, c, i, ts, ev) ==
    IF i > Len(ts)
    THEN [events |-> ev, i |-> i, pc |-> "done"]
    ELSE LET invoked == Append(ev, TransportLog(id, i, ts[i], c.level,
                                   c.messageOrData, c.dataIfMessage))
         IN  IF ts[i] = "throws"
             THEN FanOut(id, c, i + 1, ts, Append(invoked, ConsoleError(id, i)))
             ELSE [events |-> invoked, i |-> i, pc |-> "await"]

\* log with the console write after the first run of the loop
logStartTransportsFirst(lg, id, level, messageOrData, dataIfMessage, ev) ==
    LET message == IF TypeOf(messageOrData) = "string"
                   THEN messageOrData ELSE Undef
        data    == IF TypeOf(messageOrData) = "object"
                   THEN messageOrData ELSE dataIfMessage
        c       == [level |-> level, messageOrData |-> messageOrData,
                    dataIfMessage |-> dataIfMessage]
        r       == FanOut(id, c, 1, lg.transports, ev)
    IN  IF Suppressed(lg, level)
        THEN [events |-> ev, i |-> 0, pc |-> "done"]
        ELSE IF getString(lg, level, message) = <<Thrown>>
        THEN [events |-> ev, i |-> 0, pc |-> "failed"]
        ELSE [r EXCEPT !.events =
                 Append(Formatted(lg, id, level, message, @),
                        ConsoleLog(id, getString(lg, level, message), data))]

\* log that takes the third argument as the payload whatever the second is
logStartNoNormalize(lg, id, level, messageOrData, dataIfMessage, ev) ==
    LET message == IF TypeOf(messageOrData) = "string"
                   THEN messageOrData ELSE Undef
        c       == [level |-> level, messageOrData |-> messageOrData,
                    dataIfMessage |-> dataIfMessage]
    IN  IF Suppressed(lg, level)
        THEN [events |-> ev, i |-> 0, pc |-> "done"]
        ELSE IF getString(lg, level, message) = <<Thrown>>
        THEN [events |-> ev, i |-> 0, pc |-> "failed"]
        ELSE FanOut(id, c, 1, lg.transports,
                    Append(Formatted(lg, id, level, message, ev),
                           ConsoleLog(id, getString(lg, level, message),
                                      dataIfMessage)))

\* a log that treats an exception of the formatting step like a transport
\* failure: it reports it and goes on to the transports
logStartCatchesFormat(lg, id, level, messageOrData, dataIfMessage, ev) ==
    LET message == IF TypeOf(messageOrData) = "string"
                   THEN messageOrData ELSE Undef
        data    == IF TypeOf(messageOrData) = "object"
                   THEN messageOrData ELSE dataIfMessage
        c       == [level |-> level, messageOrData |-> messageOrData,
                    dataIfMessage |-> dataIfMessage]
    IN  IF Suppressed(lg, level)
        THEN [events |-> ev, i |-> 0, pc |-> "done"]
        ELSE IF getString(lg, level, message) = <<Thrown>>
        THEN FanOut(id, c, 1, lg.transports, Append(ev, ConsoleError(id, 0)))
        ELSE FanOut(id, c, 1, lg.transports,
                    Append(Formatted(lg, id, level, message, ev),
                           ConsoleLog(id, getString(lg, level, message),
                                      data)))

\* a log whose console write overtakes everything written before it
logStartOvertakes(lg, id, level, messageOrData, dataIfMessage, ev) ==
    LET message == IF TypeOf(messageOrData) = "string"
                   THEN messageOrData ELSE Undef
        data    == IF TypeOf(messageOrData) = "object"
                   THEN messageOrData ELSE dataIfMessage
        c       == [level |-> level, messageOrData |-> messageOrData,
                    dataIfMessage |-> dataIfMessage]
    IN  IF Suppressed(lg, level)
        THEN [events |-> ev, i |-> 0, pc |-> "done"]
        ELSE IF getString(lg, level, message) = <<Thrown>>
        THEN [events |-> ev, i |-> 0, pc |-> "failed"]
        ELSE FanOut(id, c, 1, lg.transports,
                    <<ConsoleLog(id, getString(lg, level, message), data)>>
                    \o Formatted(lg, id, level, message, ev))

\* The synchronous first segment of log(level, messageOrData, dataIfMessage)
\* as emission `id`: where the call stands and the trace it leaves.  An
\* exception out of getString is outside the try block: it rejects the
\* promise of log before anything is written.
logStart(lg, id, level, messageOrData, dataIfMessage, ev) ==
    LET message == IF TypeOf(messageOrData) = "string"
                   THEN messageOrData ELSE Undef
        data    == IF TypeOf(messageOrData) = "object"
                   THEN messageOrData ELSE dataIfMessage
        c       == [level |-> level, messageOrData |-> messageOrData,
                    dataIfMessage |-> dataIfMessage]
    IN  IF Suppressed(lg, level)
        THEN [events |-> ev, i |-> 0, pc |-> "done"]
        ELSE IF getString(lg, level, message) = <<Thrown>>
        THEN [events |-> ev, i |-> 0, pc |-> "failed"]
        ELSE FanOut(id, c, 1, lg.transports,
                    Append(Formatted(lg, id, level, message, ev),
                           ConsoleLog(id, getString(lg, level, message),
                                      data)))

\* the promise that log returned, for a call at position pc
Promise(c) ==
    CASE c.pc = "done"   -> [state |-> "fulfilled",
                             value |-> LogRecord(c.level, c.messageOrData,
                                                 c.dataIfMessage)]
      [] c.pc = "failed" -> [state |-> "rejected"]
      [] OTHER           -> [state |-> "pending"]

(***************************************************************************)
(* The inputs of the model.                                                *)
(***************************************************************************)
Levels == {"info", "debug", "warn", "ignore", "trace"}
Messages == {Undef, Str(""), Str("msg"), Obj("o1")}
Payloads == {Undef, Obj("o2")}
Texts == {m \in Messages : TypeOf(m) # "object"}

NoLevels == [k \in {} |-> << >>]

\* The configurations: every combination of the options that decide
\* suppression, every combination of those that decide the composition of
\* the line, and the custom level tables; the other options at their
\* defaults; and one that suppresses under a custom formatFunction.
Args ==
    [name            : {Undef},
     debugMode       : BOOLEAN,
     debugLevels     : {<< >>, <<"warn">>},
     customLogLevels : {NoLevels},
     formatFunction  : {"none"}]
    \cup
    [name            : {Undef, Str("app")},
     debugMode       : {TRUE},
     debugLevels     : {<< >>},
     customLogLevels : {NoLevels},
     formatFunction  : {"none", "custom"}]
    \cup
    [name            : {Str("app")},
     debugMode       : {FALSE},
     debugLevels     : {<<"warn">>},
     customLogLevels : {NoLevels},
     formatFunction  : {"custom"}]
    \cup
    [name            : {Undef},
     debugMode       : {TRUE},
     debugLevels     : {<< >>},
     customLogLevels : {[info |-> Red], [trace |-> NotAColor],
                        [info |-> Red, trace |-> RedName]},
     formatFunction  : {"none"}]

(***************************************************************************)
(* State and operations.                                                   *)
(***************************************************************************)
Init ==
    \E args \in Args :
        /\ logger = Constructor(args)
        /\ events = ConstructorWarnings(Constructor(args).logLevels,
                                        KeysOf(args.customLogLevels))
        /\ calls = << >>
        /\ second = Undef
        /\ registered = << >>

\* The caller's program is one call site, executed repeatedly: every call
\* of a behaviour has the method and the arguments of the first one.
SameSite(method, level, X, Y) ==
    \A k \in 1..Len(calls) :
        /\ calls[k].method = method
        /\ calls[k].level = level
        /\ calls[k].X = X
        /\ calls[k].Y = Y

CanCall(method, level, X, Y) ==
    /\ Len(calls) < MaxCalls
    /\ SameSite(method, level, X, Y)

\* an addTransport that skips a transport that is already registered
addTransportOnce(transport) ==
    /\ Len(registered) < MaxTransports
    /\ registered' = Append(registered, transport)
    /\ logger' =
          IF \E k \in 1..Len(logger.transports) :
                 logger.transports[k] = transport
          THEN logger
          ELSE [logger EXCEPT !.transports = Append(@, transport)]
    /\ UNCHANGED <<calls, events, second>>

addTransport(transport) ==
    /\ Len(logger.transports) < MaxTransports
    /\ registered' = Append(registered, transport)
    /\ logger' = [logger EXCEPT !.transports = Append(@, transport)]
    /\ UNCHANGED <<calls, events, second>>

\* a log that waits its turn: it cannot start while an earlier emission
\* is suspended
logSerialized(level, X, Y) ==
    /\ CanCall("log", level, X, Y)
    /\ \A k \in 1..Len(calls) : calls[k].pc # "await"
    /\ LET id == Len(calls) + 1
           r  == logStart(logger, id, level, X, Y, events)
       IN  /\ calls' = Append(calls,
                 [method |-> "log", X |-> X, Y |-> Y, level |-> level,
                  messageOrData |-> X, dataIfMessage |-> Y,
                  n0 |-> Len(logger.transports), pc |-> r.pc, i |-> r.i,
                  ret |-> [kind |-> "promise"]])
           /\ events' = r.events
    /\ UNCHANGED <<logger, second, registered>>

\* A caller invokes logger.log(level, X, Y).  The call is recorded with
\* the arguments the caller gave (X, Y), the arguments log received, the
\* number of transports registered at the time (n0), where the call stands
\* (pc, i) and what it returned synchronously (ret).
log(level, X, Y) ==
    /\ CanCall("log", level, X, Y)
    /\ LET id == Len(calls) + 1
           r  == logStart(logger, id, level, X, Y, events)
       IN  /\ calls' = Append(calls,
                 [method |-> "log", X |-> X, Y |-> Y, level |-> level,
                  messageOrData |-> X, dataIfMessage |-> Y,
                  n0 |-> Len(logger.transports), pc |-> r.pc, i |-> r.i,
                  ret |-> [kind |-> "promise"]])
           /\ events' = r.events
    /\ UNCHANGED <<logger, second, registered>>

\* a level method that returns the normalised pair it forwarded
LevelMethodReturnsForwarded(method, level, X, Y) ==
    /\ CanCall(method, level, X, Y)
    /\ LET id      == Len(calls) + 1
           message == IF TypeOf(X) = "string" THEN X ELSE Undef
           data    == IF TypeOf(X) = "object" THEN X ELSE Y
           r       == logStart(logger, id, level, message, data, events)
       IN  /\ calls' = Append(calls,
                 [method |-> method, X |-> X, Y |-> Y, level |-> level,
                  messageOrData |-> message, dataIfMessage |-> data,
                  n0 |-> Len(logger.transports), pc |-> r.pc, i |-> r.i,
                  ret |-> [kind |-> "LogSet", messageOrData |-> message,
                           dataIfMessage |-> data]])
           /\ events' = r.events
    /\ UNCHANGED <<logger, second, registered>>

\* the body shared by the eight level methods: normalise, forward to log
\* without awaiting it, return the LogSet
LevelMethod(method, level, X, Y) ==
    /\ CanCall(method, level, X, Y)
    /\ LET id      == Len(calls) + 1
           message == IF TypeOf(X) = "string" THEN X ELSE Undef
           data    == IF TypeOf(X) = "object" THEN X ELSE Y
           r       == logStart(logger, id, level, message, data, events)
       IN  /\ calls' = Append(calls,
                 [method |-> method, X |-> X, Y |-> Y, level |-> level,
                  messageOrData |-> message, dataIfMessage |-> data,
                  n0 |-> Len(logger.transports), pc |-> r.pc, i |-> r.i,
                  ret |-> [kind |-> "LogSet", messageOrData |-> X,
                           dataIfMessage |-> Y]])
           /\ events' = r.events
    /\ UNCHANGED <<logger, second, registered>>

info(X, Y)   == LevelMethod("info", "info", X, Y)
debug(X, Y)  == LevelMethod("debug", "info", X, Y)
error(X, Y)  == LevelMethod("error", "info", X, Y)
warn(X, Y)   == LevelMethod("warn", "info", X, Y)
crit(X, Y)   == LevelMethod("crit", "info", X, Y)
notice(X, Y) == LevelMethod("notice", "info", X, Y)
http(X, Y)   == LevelMethod("http", "info", X, Y)
danger(X, Y) == LevelMethod("danger", "info", X, Y)

\* ignore written like the other level methods
ignoreForwards(X, Y) == LevelMethod("ignore", "ignore", X, Y)

\* ignore(X, Y) has an empty body: nothing is forwarded
ignore(X, Y) ==
    /\ CanCall("ignore", "", X, Y)
    /\ calls' = Append(calls,
          [method |-> "ignore", X |-> X, Y |-> Y, level |-> "",
           messageOrData |-> Undef, dataIfMessage |-> Undef,
           n0 |-> Len(logger.transports), pc |-> "none", i |-> 0,
           ret |-> [kind |-> "undefined"]])
    /\ UNCHANGED <<logger, events, second, registered>>

\* A caller invokes logger.getString(level, message) itself: nothing is
\* written, the line is returned.
callGetString(level, message) ==
    /\ CanCall("getString", level, message, Undef)
    /\ events' = Formatted(logger, Len(calls) + 1, level, message, events)
    /\ LET line == getString(logger, level, message)
       IN  calls' = Append(calls,
              [method |-> "getString", X |-> message, Y |-> Undef,
               level |-> level, messageOrData |-> message,
               dataIfMessage |-> Undef, n0 |-> Len(logger.transports),
               pc |-> "none", i |-> 0,
               ret |-> IF line = <<Thrown>> THEN [kind |-> "throw"]
                       ELSE [kind |-> "string", line |-> line]])
    /\ UNCHANGED <<logger, second, registered>>

(***************************************************************************)
(* createLogger: the logger behind a proxy.  The actions above are calls   *)
(* on the instance itself; the two below go through the proxy's get trap.  *)
(***************************************************************************)
\* names that every plain object inherits from Object.prototype
ObjectPrototypeKeys == {"constructor", "toString", "hasOwnProperty"}

\* `prop in obj` for a plain object: own keys and inherited ones
In(prop, obj) == prop \in DOMAIN obj \/ prop \in ObjectPrototypeKeys

\* Reflect.get(target, prop, receiver): the target's own property
TargetProperty(prop) == [kind |-> "target", prop |-> prop]

\* the get trap
ProxyGet(lg, prop) ==
    IF In(prop, lg.customLogLevels)
    THEN [kind |-> "synthesized", prop |-> prop]
    ELSE TargetProperty(prop)

\* the property names that the model reads through the proxy
Props == {"log", "addTransport", "getString", "name", "debugMode",
          "info", "warn", "trace", "toString", "constructor"}

\* A caller reads logger[prop] on the proxy; what it gets is recorded.
proxyGet(prop) ==
    /\ CanCall("get", prop, Undef, Undef)
    /\ calls' = Append(calls,
          [method |-> "get", X |-> Undef, Y |-> Undef, level |-> prop,
           messageOrData |-> Undef, dataIfMessage |-> Undef,
           n0 |-> Len(logger.transports), pc |-> "none", i |-> 0,
           ret |-> ProxyGet(logger, prop)])
    /\ UNCHANGED <<logger, events, second, registered>>

\* a synthesized function that takes the second argument as the payload
\* whatever the first is
proxyCallSecondIsData(prop, X, Y) ==
    /\ ProxyGet(logger, prop).kind = "synthesized"
    /\ CanCall("proxy", prop, X, Y)
    /\ LET id      == Len(calls) + 1
           message == IF TypeOf(X) = "string" THEN X ELSE Undef
           r       == logStart(logger, id, prop, message, Y, events)
       IN  /\ calls' = Append(calls,
                 [method |-> "proxy", X |-> X, Y |-> Y, level |-> prop,
                  messageOrData |-> message, dataIfMessage |-> Y,
                  n0 |-> Len(logger.transports), pc |-> r.pc, i |-> r.i,
                  ret |-> [kind |-> "undefined"]])
           /\ events' = r.events
    /\ UNCHANGED <<logger, second, registered>>

\* A caller invokes logger[prop](X, Y) on the proxy where the trap hands
\* out the synthesized function: normalise, call target.log(prop, ...)
\* without awaiting it, return nothing.
proxyCall(prop, X, Y) ==
    /\ ProxyGet(logger, prop).kind = "synthesized"
    /\ CanCall("proxy", prop, X, Y)
    /\ LET id      == Len(calls) + 1
           message == IF TypeOf(X) = "string" THEN X ELSE Undef
           data    == IF TypeOf(X) = "object" THEN X ELSE Y
           r       == logStart(logger, id, prop, message, data, events)
       IN  /\ calls' = Append(calls,
                 [method |-> "proxy", X |-> X, Y |-> Y, level |-> prop,
                  messageOrData |-> message, dataIfMessage |-> data,
                  n0 |-> Len(logger.transports), pc |-> r.pc, i |-> r.i,
                  ret |-> [kind |-> "undefined"]])
           /\ events' = r.events
    /\ UNCHANGED <<logger, second, registered>>

\* a loop without the catch: a rejected result ends the emission
ResumeRejectionEscapes(id) ==
    /\ calls[id].pc = "await"
    /\ LET c == calls[id]
           r == IF logger.transports[c.i] = "rejects"
                THEN [events |-> events, i |-> c.i, pc |-> "failed"]
                ELSE FanOut(id, c, c.i + 1, logger.transports, events)
       IN  /\ calls' = [calls EXCEPT ![id].pc = r.pc, ![id].i = r.i]
           /\ events' = r.events
    /\ UNCHANGED <<logger, second, registered>>

\* results that settle in the order in which the emissions were issued
ResumeInIssueOrder(id) ==
    /\ calls[id].pc = "await"
    /\ \A k \in 1..(id - 1) : calls[k].pc # "await"
    /\ LET c  == calls[id]
           ev == IF logger.transports[c.i] = "rejects"
                 THEN Append(events, ConsoleError(id, c.i)) ELSE events
           r  == FanOut(id, c, c.i + 1, logger.transports, ev)
       IN  /\ calls' = [calls EXCEPT ![id].pc = r.pc, ![id].i = r.i]
           /\ events' = r.events
    /\ UNCHANGED <<logger, second, registered>>

\* a loop that runs over a copy of the list taken when log was called
ResumeOverCopy(id) ==
    /\ calls[id].pc = "await"
    /\ LET c  == calls[id]
           ev == IF logger.transports[c.i] = "rejects"
                 THEN Append(events, ConsoleError(id, c.i)) ELSE events
           r  == FanOut(id, c, c.i + 1,
                        SubSeq(logger.transports, 1, c.n0), ev)
       IN  /\ calls' = [calls EXCEPT ![id].pc = r.pc, ![id].i = r.i]
           /\ events' = r.events
    /\ UNCHANGED <<logger, second, registered>>

\* The result that emission `id` awaits has settled: the rest of the loop
\* runs up to the next await.  A rejection is caught and reported first.
\* `await` always yields, also on a void return, so the segment after it is
\* a step of its own, and the loop reads the transport list as it is then.
Resume(id) ==
    /\ calls[id].pc = "await"
    /\ LET c  == calls[id]
           ev == IF logger.transports[c.i] = "rejects"
                 THEN Append(events, ConsoleError(id, c.i)) ELSE events
           r  == FanOut(id, c, c.i + 1, logger.transports, ev)
       IN  /\ calls' = [calls EXCEPT ![id].pc = r.pc, ![id].i = r.i]
           /\ events' = r.events
    /\ UNCHANGED <<logger, second, registered>>

Next ==
    \/ \E t \in Transports : addTransport(t)
    \/ \E l \in Levels, X \in Messages, Y \in Payloads : log(l, X, Y)
    \/ \E X \in Messages, Y \in Payloads : info(X, Y)
    \/ \E X \in Messages, Y \in Payloads : debug(X, Y)
    \/ \E X \in Messages, Y \in Payloads : error(X, Y)
    \/ \E X \in Messages, Y \in Payloads : warn(X, Y)
    \/ \E X \in Messages, Y \in Payloads : crit(X, Y)
    \/ \E X \in Messages, Y \in Payloads : notice(X, Y)
    \/ \E X \in Messages, Y \in Payloads : http(X, Y)
    \/ \E X \in Messages, Y \in Payloads : danger(X, Y)
    \/ \E X \in Messages, Y \in Payloads : ignore(X, Y)
    \/ \E l \in Levels, m \in Texts : callGetString(l, m)
    \/ \E prop \in Props : proxyGet(prop)
    \/ \E prop \in Levels, X \in Messages, Y \in Payloads :
          proxyCall(prop, X, Y)
    \/ \E id \in 1..Len(calls) : Resume(id)

Spec == Init /\ [][Next]_vars

(***************************************************************************)
(* Emissions whose transports all settle: every pending result is          *)
(* eventually delivered to the emission that awaits it.                    *)
(***************************************************************************)
ArgsFair ==
    [name            : {Undef},
     debugMode       : BOOLEAN,
     debugLevels     : {<< >>, <<"warn">>},
     customLogLevels : {NoLevels},
     formatFunction  : {"none"}]

InitFair ==
    \E args \in ArgsFair :
        /\ logger = Constructor(args)
        /\ events = ConstructorWarnings(Constructor(args).logLevels,
                                        KeysOf(args.customLogLevels))
        /\ calls = << >>
        /\ second = Undef
        /\ registered = << >>

LevelsFair == {"info", "warn"}

NextFair ==
    \/ \E t \in Transports : addTransport(t)
    \/ \E l \in LevelsFair : log(l, Str("msg"), Undef)
    \/ \E id \in 1..Len(calls) : Resume(id)

Settles(id) == id <= Len(calls) /\ Resume(id)

SpecFair ==
    /\ InitFair
    /\ [][NextFair]_vars
    /\ \A id \in 1..MaxCalls : WF_vars(Settles(id))

(***************************************************************************)
(* A logger whose formatFunction throws.                                   *)
(***************************************************************************)
ArgsFormatThrows ==
    [name            : {Undef},
     debugMode       : BOOLEAN,
     debugLevels     : {<< >>},
     customLogLevels : {NoLevels},
     formatFunction  : {"throws"}]

InitFormatThrows ==
    \E args \in ArgsFormatThrows :
        /\ logger = Constructor(args)
        /\ events = ConstructorWarnings(Constructor(args).logLevels,
                                        KeysOf(args.customLogLevels))
        /\ calls = << >>
        /\ second = Undef
        /\ registered = << >>

LevelsFormatThrows == {"info", "debug"}

NextFormatThrows ==
    \/ \E t \in Transports : addTransport(t)
    \/ \E l \in LevelsFormatThrows, X \in Messages : log(l, X, Undef)
    \/ \E l \in LevelsFormatThrows : callGetString(l, Str("msg"))

SpecFormatThrows == InitFormatThrows /\ [][NextFormatThrows]_vars

(***************************************************************************)
(* Two instances in one program.                                           *)
(***************************************************************************)
ArgsInstances ==
    [name            : {Undef},
     debugMode       : {TRUE},
     debugLevels     : {<< >>},
     customLogLevels : {NoLevels, [info |-> Red], [trace |-> NotAColor],
                        [info |-> Blue, trace |-> RedName]},
     formatFunction  : {"none"}]

InitInstances ==
    \E args \in ArgsInstances :
        /\ logger = Constructor(args)
        /\ events = ConstructorWarnings(Constructor(args).logLevels,
                                        KeysOf(args.customLogLevels))
        /\ calls = << >>
        /\ second = Undef
        /\ registered = << >>

\* a constructor that merges the caller's table into one default table
\* shared by the instances
newLoggerSharedTable(args) ==
    /\ second = Undef
    /\ second' = [Constructor(args) EXCEPT
                     !.logLevels = Merge(logger.logLevels,
                                         args.customLogLevels)]
    /\ events' = events \o ConstructorWarnings(second'.logLevels,
                                               KeysOf(args.customLogLevels))
    /\ UNCHANGED <<logger, calls, registered>>

\* second = new Logger(args): the constructor builds its default table
\* afresh, merges and validates
newLogger(args) ==
    /\ second = Undef
    /\ second' = Constructor(args)
    /\ events' = events \o ConstructorWarnings(second'.logLevels,
                                               KeysOf(args.customLogLevels))
    /\ UNCHANGED <<logger, calls, registered>>

\* second.log(level, X, Y); the second instance has no transports
secondLog(level, X, Y) ==
    /\ second # Undef
    /\ Len(calls) < MaxCalls
    /\ LET id == Len(calls) + 1
           r  == logStart(second, id, level, X, Y, events)
       IN  /\ calls' = Append(calls,
                 [method |-> "second.log", X |-> X, Y |-> Y, level |-> level,
                  messageOrData |-> X, dataIfMessage |-> Y,
                  n0 |-> Len(second.transports), pc |-> r.pc, i |-> r.i,
                  ret |-> [kind |-> "promise"]])
           /\ events' = r.events
    /\ UNCHANGED <<logger, second, registered>>

LevelsInstances == {"info", "warn", "trace"}
MessagesInstances == {Str("msg"), Obj("o1")}

NextInstances ==
    \/ \E args \in ArgsInstances : newLogger(args)
    \/ \E l \in LevelsInstances, X \in MessagesInstances : log(l, X, Undef)
    \/ \E l \in LevelsInstances, X \in MessagesInstances :
          secondLog(l, X, Undef)

SpecInstances == InitInstances /\ [][NextInstances]_vars

(***************************************************************************)
(* What an observer reads off the trace.                                   *)
(***************************************************************************)
EventsOf(id) == SelectSeq(events, LAMBDA e : e.call = id)

ConsoleLines(id) ==
    SelectSeq(events, LAMBDA e : e.call = id /\ e.kind = "console.log")

ConsoleErrors(id) ==
    SelectSeq(events, LAMBDA e : e.call = id /\ e.kind = "console.error")

Invocations(id) ==
    SelectSeq(events, LAMBDA e : e.call = id /\ e.kind = "transport.log")

\* the positions of the trace, by kind
Positions(id, kind) ==
    {p \in 1..Len(events) : events[p].call = id /\ events[p].kind = kind}

\* the level tag of a line of this logger
TagOf(line) ==
    IF logger.formatFunction = "custom" THEN line[4]
    ELSE IF Truthy(logger.name) THEN line[5] ELSE line[3]

\* the message text of a line of this logger ("" when there is none)
MessageOf(line) ==
    IF logger.formatFunction = "custom" THEN line[Len(line)].text
    ELSE IF line[Len(line)] = Plain(":") THEN "" ELSE line[Len(line)].text

LevelMethods ==
    {"info", "debug", "error", "warn", "crit", "notice", "http", "danger"}

CallIds == 1..Len(calls)

(***************************************************************************)
(* C1: each of the convenience methods info, debug, error, warn, crit,     *)
(* notice, http and danger forwards to log with its own same-named level:  *)
(* a call of method L emits a console line whose level token is the        *)
(* uppercase of L and invokes the transports with level L.                 *)
(***************************************************************************)
C1_MethodForwardsOwnLevel ==
    \A id \in CallIds :
        calls[id].method \in LevelMethods =>
            /\ calls[id].level = calls[id].method
            /\ \A k \in 1..Len(ConsoleLines(id)) :
                  TagOf(ConsoleLines(id)[k].line).text
                      = toUpperCase(calls[id].method)
            /\ \A k \in 1..Len(Invocations(id)) :
                  Invocations(id)[k].level = calls[id].method

(***************************************************************************)
(* C2: with debugMode = false, log('debug', M, D) writes nothing to the    *)
(* console, invokes no transport, and resolves with the record             *)
(* {level: 'debug', messageOrData: M, dataIfMessage: D}.                   *)
(***************************************************************************)
C2_DebugSuppressed ==
    \A id \in CallIds :
        (calls[id].method = "log" /\ calls[id].level = "debug"
         /\ ~logger.debugMode) =>
            /\ EventsOf(id) = << >>
            /\ Promise(calls[id]) =
                  [state |-> "fulfilled",
                   value |-> [level |-> "debug",
                              messageOrData |-> calls[id].X,
                              dataIfMessage |-> calls[id].Y]]

C2_Witness ==
    \E id \in CallIds :
        /\ calls[id].method = "log" /\ calls[id].level = "debug"
        /\ ~logger.debugMode
        /\ calls[id].n0 = MaxTransports
        /\ calls[id].X = Str("msg") /\ calls[id].Y = Obj("o2")

(***************************************************************************)
(* C3: with debugMode = false, the convenience call logger.debug(M, D) is  *)
(* suppressed like log('debug', M, D): nothing is written to the console   *)
(* and no transport is invoked.                                            *)
(***************************************************************************)
C3_DebugMethodSuppressed ==
    \A id \in CallIds :
        (calls[id].method = "debug" /\ ~logger.debugMode) =>
            EventsOf(id) = << >>

(***************************************************************************)
(* C4: for a level L listed in debugLevels, log(L, M, D) writes to the     *)
(* console and invokes transports if and only if debugMode is true; with   *)
(* debugMode false the call is silent and still resolves with the record   *)
(* of L and the unchanged inputs.  A level that is neither 'debug' nor in  *)
(* debugLevels is never suppressed.                                        *)
(***************************************************************************)
InDebugLevels(level) ==
    \E k \in 1..Len(logger.debugLevels) : logger.debugLevels[k] = level

C4_DebugLevelsGated ==
    \A id \in CallIds :
        calls[id].method = "log" =>
            /\ InDebugLevels(calls[id].level) =>
                  /\ (Len(ConsoleLines(id)) = 1) <=> logger.debugMode
                  /\ calls[id].n0 > 0 =>
                        ((Invocations(id) # << >>) <=> logger.debugMode)
                  /\ ~logger.debugMode =>
                        /\ EventsOf(id) = << >>
                        /\ Promise(calls[id]) =
                              [state |-> "fulfilled",
                               value |-> [level |-> calls[id].level,
                                          messageOrData |-> calls[id].X,
                                          dataIfMessage |-> calls[id].Y]]
            /\ (calls[id].level # "debug"
                /\ ~InDebugLevels(calls[id].level)) =>
                  /\ Len(ConsoleLines(id)) = 1
                  /\ calls[id].n0 > 0 => Invocations(id) # << >>

C4_Witness ==
    \E id \in CallIds :
        /\ calls[id].method = "log"
        /\ InDebugLevels(calls[id].level)
        /\ ~logger.debugMode
        /\ calls[id].n0 > 0
        /\ calls[id].X = Str("msg") /\ calls[id].Y = Obj("o2")

(***************************************************************************)
(* C5: ignore(M, D) never writes to the console, never invokes a           *)
(* transport and leaves the logger unchanged, whatever M, D, debugMode and *)
(* the registered transports are.                                          *)
(***************************************************************************)
IgnoreCalled ==
    /\ Len(calls') = Len(calls) + 1
    /\ calls'[Len(calls')].method = "ignore"

C5_IgnoreIsNoOp ==
    [][IgnoreCalled => (events' = events /\ logger' = logger)]_vars

C5_Witness ==
    \E id \in CallIds :
        /\ calls[id].method = "ignore"
        /\ calls[id].n0 > 0
        /\ calls[id].X = Str("msg") /\ calls[id].Y = Obj("o2")

(***************************************************************************)
(* C6: the level 'ignore' is a no-op through log as well:                  *)
(* log('ignore', M, D) never writes to the console and never invokes a     *)
(* transport.                                                              *)
(***************************************************************************)
C6_IgnoreLevelIsNoOp ==
    \A id \in CallIds :
        (calls[id].method = "log" /\ calls[id].level = "ignore") =>
            EventsOf(id) = << >>

(***************************************************************************)
(* C7: for every non-suppressed emission on a logger with N registered     *)
(* transports, each of the N transports is invoked exactly once, whichever *)
(* of them throw or reject; a failing transport never prevents the         *)
(* invocation of a transport registered after it.                          *)
(***************************************************************************)
Emission(id) ==
    calls[id].pc # "none" /\ ~Suppressed(logger, calls[id].level)

Settled(id) == calls[id].pc \in {"done", "failed"}

InvokedAt(id, k) ==
    {p \in Positions(id, "transport.log") : events[p].index = k}

C7_EachTransportOnce ==
    \A id \in CallIds :
        Emission(id) =>
            /\ \A k \in 1..Len(logger.transports) :
                  /\ Cardinality(InvokedAt(id, k)) <= 1
                  /\ \A p \in InvokedAt(id, k) :
                        events[p].transport = logger.transports[k]
            /\ Settled(id) =>
                  \A k \in 1..calls[id].n0 :
                      Cardinality(InvokedAt(id, k)) = 1

C7_Witness ==
    \E id \in CallIds :
        /\ Emission(id) /\ Settled(id)
        /\ calls[id].n0 = 2
        /\ logger.transports[1] # "ok"
        /\ logger.transports[2] = "ok"
        /\ Len(Invocations(id)) = 2

(***************************************************************************)
(* C8: a transport failure never propagates to the caller of log: the      *)
(* promise never rejects and resolves with the record {level,              *)
(* messageOrData, dataIfMessage} of the call's arguments, the same as when *)
(* every transport succeeds, even when every transport fails; each failure *)
(* produces one console error.                                             *)
(***************************************************************************)
FailedInvocations(id) ==
    {p \in Positions(id, "transport.log") : events[p].transport # "ok"}

C8_FailureNotPropagated ==
    \A id \in CallIds :
        calls[id].method = "log" =>
            /\ Promise(calls[id]).state # "rejected"
            /\ Len(ConsoleErrors(id)) <= Cardinality(FailedInvocations(id))
            /\ Settled(id) =>
                  /\ Promise(calls[id]) =
                        [state |-> "fulfilled",
                         value |-> [level |-> calls[id].level,
                                    messageOrData |-> calls[id].X,
                                    dataIfMessage |-> calls[id].Y]]
                  /\ Len(ConsoleErrors(id))
                        = Cardinality(FailedInvocations(id))

C8_Witness ==
    \E id \in CallIds :
        /\ calls[id].method = "log" /\ Settled(id)
        /\ calls[id].n0 = 2
        /\ logger.transports[1] = "throws"
        /\ logger.transports[2] = "rejects"
        /\ Len(ConsoleErrors(id)) = 2

(***************************************************************************)
(* C9: within one emission the console write happens before any transport *)
(* is invoked, so the console line exists even when every transport fails. *)
(***************************************************************************)
C9_ConsoleBeforeTransports ==
    \A p \in 1..Len(events) :
        events[p].kind = "transport.log" =>
            \E q \in 1..(p - 1) :
                /\ events[q].kind = "console.log"
                /\ events[q].call = events[p].call

C9_Witness ==
    \E id \in CallIds :
        /\ Settled(id)
        /\ Len(Invocations(id)) = 2
        /\ \A k \in 1..2 : Invocations(id)[k].transport # "ok"
        /\ Len(ConsoleLines(id)) = 1

(***************************************************************************)
(* C10: argument normalization in log(level, X, Y): when X is text, the    *)
(* line carries X as its message and Y (if any) is the second console      *)
(* argument; when X is a structured value, X is the second console         *)
(* argument, the line has no message text and Y is not used.               *)
(***************************************************************************)
HasNoMessage(line) ==
    IF logger.formatFunction = "custom"
    THEN line[Len(line)] = Plain("undefined")
    ELSE line[Len(line)] = Plain(":")

C10_ArgumentNormalization ==
    \A id \in CallIds :
        (calls[id].method = "log" /\ Emission(id)) =>
            /\ Len(ConsoleLines(id)) = 1
            /\ LET e == ConsoleLines(id)[1]
                   X == calls[id].X
                   Y == calls[id].Y
               IN  /\ TypeOf(X) = "string" =>
                        /\ MessageOf(e.line) = X.v
                        /\ e.arg = IF Y = Undef THEN Str("") ELSE Y
                   /\ TypeOf(X) = "object" =>
                        /\ HasNoMessage(e.line)
                        /\ e.arg = X

C10_Witness ==
    \E id \in CallIds :
        /\ calls[id].method = "log" /\ Emission(id)
        /\ calls[id].X = Obj("o1") /\ calls[id].Y = Obj("o2")
        /\ logger.formatFunction = "custom"

(***************************************************************************)
(* C11: the tuple a transport receives from the convenience call           *)
(* logger.info(X, Y) is the tuple it receives from log('info', X, Y): the  *)
(* level 'info' and the caller's original X and Y, also when X is a        *)
(* structured value.                                                       *)
(***************************************************************************)
C11_InfoHandsOriginalArguments ==
    \A id \in CallIds :
        calls[id].method = "info" =>
            \A k \in 1..Len(Invocations(id)) :
                /\ Invocations(id)[k].level = "info"
                /\ Invocations(id)[k].messageOrData = calls[id].X
                /\ Invocations(id)[k].data = calls[id].Y

(***************************************************************************)
(* C12: every emission call - log and each of the nine convenience         *)
(* methods, suppressed or not - returns a record carrying the level name,  *)
(* the original message-or-data argument and the original secondary data   *)
(* argument.  (Statement of the claim as given; the value log returns is   *)
(* read off its promise.)                                                  *)
(***************************************************************************)
C12_EveryCallReturnsLogRecord ==
    \A id \in CallIds :
        LET c == calls[id]
        IN  /\ c.method = "log" =>
                  (c.pc = "done" =>
                      Promise(c) = [state |-> "fulfilled",
                                    value |-> [level |-> c.level,
                                               messageOrData |-> c.X,
                                               dataIfMessage |-> c.Y]])
            /\ c.method \in LevelMethods \cup {"ignore"} =>
                  c.ret = [level |-> c.method, messageOrData |-> c.X,
                           dataIfMessage |-> c.Y]

(***************************************************************************)
(* C12, amended: log returns a promise that is fulfilled, suppressed or    *)
(* not, with the record {level, X, Y} of its original arguments; each of   *)
(* the eight level methods returns at once the pair {X, Y} of its original *)
(* arguments, without a level; ignore returns nothing.                     *)
(***************************************************************************)
C12_ReturnValues ==
    \A id \in CallIds :
        LET c == calls[id]
        IN  /\ c.method = "log" =>
                  /\ c.ret = [kind |-> "promise"]
                  /\ Promise(c).state # "rejected"
                  /\ c.pc = "done" =>
                        Promise(c).value = [level |-> c.level,
                                            messageOrData |-> c.X,
                                            dataIfMessage |-> c.Y]
            /\ c.method \in LevelMethods =>
                  c.ret = [kind |-> "LogSet", messageOrData |-> c.X,
                           dataIfMessage |-> c.Y]
            /\ c.method = "ignore" => c.ret = [kind |-> "undefined"]

C12_Witness ==
    \E id \in CallIds :
        /\ calls[id].method = "warn"
        /\ calls[id].X = Obj("o1") /\ calls[id].Y = Obj("o2")
        /\ calls[id].ret.dataIfMessage = Obj("o2")
        /\ calls[id].pc = "done"

(***************************************************************************)
(* C13: the level registry of a logger is the default table merged with    *)
(* the caller's customLogLevels: a key of customLogLevels that is a        *)
(* default name takes the custom colour, a new key is added with its       *)
(* colour, every other default name keeps its default colour, and a name   *)
(* in neither table is not in the registry.                                *)
(***************************************************************************)
RegistryNames == DOMAIN defaultLogLevels \cup {"trace", "fatal"}

C13_RegistryIsMerge ==
    \A k \in RegistryNames :
        LET custom == logger.customLogLevels
        IN  /\ k \in DOMAIN custom =>
                  /\ k \in DOMAIN logger.logLevels
                  /\ logger.logLevels[k] = custom[k]
            /\ (k \notin DOMAIN custom /\ k \in DOMAIN defaultLogLevels) =>
                  /\ k \in DOMAIN logger.logLevels
                  /\ logger.logLevels[k] = defaultLogLevels[k]
            /\ (k \notin DOMAIN custom /\ k \notin DOMAIN defaultLogLevels) =>
                  k \notin DOMAIN logger.logLevels

C13_Witness ==
    /\ DOMAIN logger.customLogLevels = {"info", "trace"}
    /\ logger.logLevels["info"] = Red
    /\ logger.logLevels["trace"] = RedName
    /\ logger.logLevels["warn"] = Yellow
    /\ Len(calls) = MaxCalls

(***************************************************************************)
(* C14: two instances share no registry state.  Whatever tables the two    *)
(* were constructed with, in whichever order, and whatever was emitted on  *)
(* either, each instance resolves 'info' (and every other name) to the     *)
(* colour of its own customLogLevels, or to the default colour when its    *)
(* own table does not name the level; every 'info' line an instance        *)
(* printed is tagged with that colour.                                     *)
(***************************************************************************)
OwnColour(lg, k) ==
    IF k \in DOMAIN lg.customLogLevels THEN lg.customLogLevels[k]
    ELSE defaultLogLevels[k]

OwnRegistry(lg) ==
    /\ DOMAIN lg.logLevels
          = DOMAIN defaultLogLevels \cup DOMAIN lg.customLogLevels
    /\ \A k \in DOMAIN lg.logLevels : lg.logLevels[k] = OwnColour(lg, k)

C14_InstancesShareNothing ==
    /\ OwnRegistry(logger)
    /\ second # Undef => OwnRegistry(second)
    /\ \A id \in CallIds :
          calls[id].level = "info" =>
              \A k \in 1..Len(ConsoleLines(id)) :
                  ConsoleLines(id)[k].line[3].style =
                      IF calls[id].method = "second.log"
                      THEN OwnColour(second, "info")
                      ELSE OwnColour(logger, "info")

C14_Witness ==
    /\ second # Undef
    /\ logger.customLogLevels = [info |-> Red]
    /\ second.customLogLevels = [trace |-> NotAColor]
    /\ Len(calls) = 2
    /\ calls[1].method = "log" /\ calls[1].level = "info"
    /\ calls[2].method = "second.log" /\ calls[2].level = "info"
    /\ ConsoleLines(2)[1].line[3].style = Green

(***************************************************************************)
(* C15: colour resolution is total.  For every level passed to log or to   *)
(* getString, whatever the registry holds for it - a valid hex code, a     *)
(* colour name of the rendering backend, an unrecognised string, or no     *)
(* entry at all - nothing throws; the tag is the uppercase level name, in  *)
(* the registered colour in the first two cases and plain in the last two. *)
(***************************************************************************)
Unresolvable(level) ==
    \/ level \notin DOMAIN logger.logLevels
    \/ /\ ~isValidHexColor(logger.logLevels[level])
       /\ logger.logLevels[level] \notin ChalkMethods

\* the lines that call `id` printed or returned
LinesOf(id) ==
    {ConsoleLines(id)[k].line : k \in 1..Len(ConsoleLines(id))}
    \cup (IF calls[id].ret.kind = "string" THEN {calls[id].ret.line} ELSE {})

MessageGiven(id) ==
    IF TypeOf(calls[id].X) = "string" THEN calls[id].X ELSE Undef

\* where the tag stands in a default line of this logger
TagAt == IF Truthy(logger.name) THEN 5 ELSE 3

DefaultPrefix(line) ==
    /\ Len(line) >= TagAt
    /\ line[1] = Plain(TimeToken)
    /\ line[2] = Plain(" | ")
    /\ Truthy(logger.name) =>
          /\ line[3] = Plain(logger.name.v)
          /\ line[4] = Plain(" | ")
    /\ line[TagAt].text \in {"INFO", "DEBUG", "WARN", "IGNORE", "TRACE"}

C16_NoMessageLineEndsWithTag ==
    logger.formatFunction = "none" =>
        \A id \in CallIds : \A line \in LinesOf(id) :
            /\ DefaultPrefix(line)
            /\ Truthy(MessageGiven(id)) =>
                  /\ Len(line) = TagAt + 3
                  /\ line[TagAt + 1] = Plain(":")
                  /\ line[TagAt + 2] = Plain(" ")
                  /\ line[TagAt + 3] = Plain(MessageGiven(id).v)
            /\ ~Truthy(MessageGiven(id)) => Len(line) = TagAt

(***************************************************************************)
(* C16, amended: with the default format the line is                       *)
(* `<time> | <name> | <LEVEL>:` followed by ` <message>`; the `<name> | `  *)
(* segment is absent exactly when no display name is configured; only the  *)
(* space and the message are absent when no message (or an empty one) is   *)
(* supplied: the colon stays, so the line of a data-only call ends with    *)
(* `<LEVEL>:`.                                                             *)
(***************************************************************************)
C16_DefaultLine ==
    logger.formatFunction = "none" =>
        \A id \in CallIds : \A line \in LinesOf(id) :
            /\ DefaultPrefix(line)
            /\ line[TagAt].text = toUpperCase(calls[id].level)
            /\ Len(line) > TagAt
            /\ line[TagAt + 1] = Plain(":")
            /\ Truthy(MessageGiven(id)) =>
                  /\ Len(line) = TagAt + 3
                  /\ line[TagAt + 2] = Plain(" ")
                  /\ line[TagAt + 3] = Plain(MessageGiven(id).v)
            /\ ~Truthy(MessageGiven(id)) => Len(line) = TagAt + 1

C16_Witness ==
    \E id \in CallIds :
        /\ calls[id].method = "log" /\ calls[id].X = Obj("o1")
        /\ logger.formatFunction = "none"
        /\ logger.name = Str("app")
        /\ Len(ConsoleLines(id)) = 1
        /\ Len(ConsoleLines(id)[1].line) = 6
        /\ ConsoleLines(id)[1].line[6] = Plain(":")

(***************************************************************************)
(* C17: with a custom formatFunction configured, every line the logger     *)
(* emits is exactly what the function returns; the function is called once *)
(* per non-suppressed emission (and not at all for a suppressed one), with *)
(* the resolved level tag, the raw message (absent for a data-only call),  *)
(* the timestamp and the configured name; the default composition is not   *)
(* applied.                                                                *)
(***************************************************************************)
FormatCalls(id) ==
    SelectSeq(events, LAMBDA e : e.call = id /\ e.kind = "formatFunction")

\* what the caller's function returned for the call recorded as e
ReturnOf(e) ==
    CustomFormat([level |-> e.level, message |-> e.message,
                  date |-> e.date, name |-> e.name])

C17_CustomFormatVerbatim ==
    logger.formatFunction = "custom" =>
        \A id \in CallIds :
            LET c == calls[id]
                called == c.method = "getString"
                          \/ (c.pc # "none" /\ ~Suppressed(logger, c.level))
            IN  /\ ~called => FormatCalls(id) = << >>
                /\ called =>
                      /\ Len(FormatCalls(id)) = 1
                      /\ Cardinality(LinesOf(id)) = 1
                      /\ LET e == FormatCalls(id)[1]
                         IN  /\ e.level.text = toUpperCase(c.level)
                             /\ e.level.style =
                                   IF Unresolvable(c.level) THEN << >>
                                   ELSE logger.logLevels[c.level]
                             /\ e.message = MessageGiven(id)
                             /\ e.date = TimeToken
                             /\ e.name = logger.name
                             /\ LinesOf(id) = {ReturnOf(e)}
                      /\ \A p \in Positions(id, "console.log") :
                            \A q \in Positions(id, "formatFunction") : q < p

C17_Witness ==
    \E id \in CallIds :
        /\ logger.formatFunction = "custom"
        /\ logger.name = Str("app")
        /\ calls[id].method = "log" /\ calls[id].X = Obj("o1")
        /\ Len(FormatCalls(id)) = 1
        /\ FormatCalls(id)[1].message = Undef
        /\ Len(ConsoleLines(id)) = 1
        /\ calls[id].n0 = MaxTransports

(***************************************************************************)
(* C18: on a logger made by createLogger with a custom level K that is not *)
(* a fixed method name, logger.K(X, Y) forwards to log(K, ...) and writes  *)
(* to the console what log(K, X, Y) writes on the same logger.             *)
(***************************************************************************)
FixedMethods == LevelMethods \cup {"ignore"}

\* what log(level, X, Y) writes to the console as emission `id`
ConsoleOfLog(id, level, X, Y) ==
    SelectSeq(logStart(logger, id, level, X, Y, << >>).events,
              LAMBDA e : e.kind = "console.log")

C18_CustomLevelCallLikeLog ==
    \A id \in CallIds :
        LET c == calls[id]
        IN  (c.method = "proxy" /\ c.level \notin FixedMethods) =>
              /\ c.level \in DOMAIN logger.customLogLevels
              /\ ConsoleLines(id) = ConsoleOfLog(id, c.level, c.X, c.Y)
              /\ Len(ConsoleLines(id)) = 1
              /\ TagOf(ConsoleLines(id)[1].line).text = toUpperCase(c.level)
              /\ \A k \in 1..Len(Invocations(id)) :
                    Invocations(id)[k].level = c.level

C18_Witness ==
    \E id \in CallIds :
        /\ calls[id].method = "proxy" /\ calls[id].level = "trace"
        /\ calls[id].X = Obj("o1") /\ calls[id].Y = Obj("o2")
        /\ calls[id].pc = "done"
        /\ Len(Invocations(id)) = MaxTransports
        /\ ConsoleLines(id)[1].arg = Obj("o1")

(***************************************************************************)
(* C19: the proxy intercepts only custom level names that are not fixed    *)
(* method names: when customLogLevels holds a key that is a fixed method   *)
(* name (such as info or warn), reading that property on the proxied       *)
(* logger yields the logger's own method and not a synthesized function.   *)
(***************************************************************************)
C19_FixedMethodsNotIntercepted ==
    \A id \in CallIds :
        (calls[id].method = "get" /\ calls[id].level \in FixedMethods) =>
            calls[id].ret = TargetProperty(calls[id].level)

(***************************************************************************)
(* C20: every property name that is not a key the caller put in            *)
(* customLogLevels - log, addTransport, getString, name, debugMode, and    *)
(* the names every object inherits, such as toString or constructor -      *)
(* reads on the proxied logger as it reads on the underlying Logger.       *)
(***************************************************************************)
C20_OtherPropertiesPassThrough ==
    \A id \in CallIds :
        (calls[id].method = "get"
         /\ calls[id].level \notin DOMAIN logger.customLogLevels) =>
            calls[id].ret = TargetProperty(calls[id].level)

(***************************************************************************)
(* C21: a slow transport does not block later emissions.  While an earlier *)
(* log call is suspended on a transport, a further log call can be made on *)
(* the same logger, and a call made then has written its console line and  *)
(* invoked the first transport by the time it returns, without waiting for *)
(* the earlier emission.                                                   *)
(***************************************************************************)
C21_SlowTransportDoesNotBlock ==
    /\ \A a \in CallIds :
          (calls[a].method = "log" /\ calls[a].pc = "await"
           /\ Len(calls) < MaxCalls) =>
              ENABLED log(calls[a].level, calls[a].X, calls[a].Y)
    /\ \A a \in CallIds, b \in CallIds :
          (a < b /\ calls[a].pc = "await" /\ calls[b].method = "log"
           /\ ~Suppressed(logger, calls[b].level)) =>
              /\ Len(ConsoleLines(b)) = 1
              /\ calls[b].n0 >= 1 => InvokedAt(b, 1) # {}

C21_Witness ==
    /\ Len(calls) = 2
    /\ calls[1].method = "log" /\ calls[1].pc = "await" /\ calls[1].i = 1
    /\ calls[2].method = "log" /\ calls[2].pc = "await"
    /\ Len(ConsoleLines(2)) = 1
    /\ Len(Invocations(1)) = 1
    /\ Len(Invocations(2)) = 1

(***************************************************************************)
(* C22: fan-out within one emission is parallel: a transport is invoked    *)
(* without waiting for the pending results of the transports registered    *)
(* before it, so once an emission has started its fan-out every transport  *)
(* registered at the time of the call has been invoked, also while an      *)
(* earlier result is still pending.                                        *)
(***************************************************************************)
C22_FanOutParallel ==
    \A id \in CallIds :
        (Emission(id) /\ calls[id].pc = "await") =>
            \A k \in 1..calls[id].n0 : InvokedAt(id, k) # {}

(***************************************************************************)
(* C23: construction prints exactly one warning per registry entry whose   *)
(* colour is invalid, that is, neither a hex code nor a colour name of the *)
(* rendering backend; an entry with a valid hex code or a valid colour     *)
(* name produces no warning.                                               *)
(***************************************************************************)
\* what the constructor printed
WarningsPrinted == SelectSeq(events, LAMBDA e : e.call = 0)

InvalidEntries ==
    {k \in DOMAIN logger.logLevels :
        /\ ~isValidHexColor(logger.logLevels[k])
        /\ logger.logLevels[k] \notin ChalkMethods}

C23_OneWarningPerInvalidColour ==
    /\ Len(WarningsPrinted) = Cardinality(InvalidEntries)
    /\ \A k \in 1..Len(WarningsPrinted) :
          \E n \in InvalidEntries :
              WarningsPrinted[k].color = logger.logLevels[n]

(***************************************************************************)
(* C24: addTransport appends to an ordered list, with no de-duplication    *)
(* and no removal: the transport list is the sequence of the addTransport  *)
(* arguments in call order; within one emission the transports are invoked *)
(* in registration order; and a completed emission has invoked a transport *)
(* as many times as it stands in the list.                                 *)
(***************************************************************************)
Count(seq, t) == Cardinality({k \in 1..Len(seq) : seq[k] = t})

\* the transports that emission `id` invoked, in the order of invocation
InvokedBy(id) ==
    [k \in 1..Len(Invocations(id)) |-> Invocations(id)[k].transport]

RecordHandedBack(id) ==
    \/ calls[id].method \in LevelMethods
    \/ calls[id].method = "log" /\ calls[id].pc = "done"

C25_RecordAfterFanOut ==
    \A id \in CallIds :
        (Emission(id) /\ RecordHandedBack(id)) =>
            /\ Len(ConsoleLines(id)) = 1
            /\ \A k \in 1..calls[id].n0 : InvokedAt(id, k) # {}

(***************************************************************************)
(* C26: fan-out iterates the live transport list.  A transport registered  *)
(* while an emission is suspended is invoked for that emission too: in the *)
(* step in which an emission's loop ends, the emission has invoked every   *)
(* transport of the list as it is then, not of the list as it was when log *)
(* was called.                                                             *)
(***************************************************************************)
C26_LiveTransportList ==
    [][\A id \in 1..Len(calls') :
          (/\ calls'[id].pc = "done"
           /\ calls'[id].method = "log"
           /\ ~Suppressed(logger, calls'[id].level)
           /\ (id <= Len(calls) => calls[id].pc = "await")) =>
              Len(Invocations(id)') = Len(logger'.transports)]_vars

C26_Witness ==
    \E id \in CallIds :
        /\ calls[id].method = "log" /\ calls[id].pc = "done"
        /\ calls[id].n0 = 1
        /\ Len(Invocations(id)) = 2
        /\ Invocations(id)[2].transport = "ok"

(***************************************************************************)
(* C27: for two non-suppressed log calls A then B made on the same logger  *)
(* without awaiting A, A's console line is written before B's, and the     *)
(* first-registered transport is invoked for A before it is invoked for B, *)
(* whatever the order in which the transports' results settle.             *)
(***************************************************************************)
C27_IssueOrderKept ==
    \A a \in CallIds, b \in CallIds :
        (/\ a < b
         /\ calls[a].method = "log" /\ calls[b].method = "log"
         /\ ~Suppressed(logger, calls[a].level)
         /\ ~Suppressed(logger, calls[b].level)) =>
            /\ Positions(a, "console.log") # {}
            /\ Positions(b, "console.log") # {}
            /\ \A p \in Positions(a, "console.log") :
                  \A q \in Positions(b, "console.log") : p < q
            /\ calls[a].n0 >= 1 =>
                  /\ InvokedAt(a, 1) # {} /\ InvokedAt(b, 1) # {}
                  /\ \A p \in InvokedAt(a, 1) :
                        \A q \in InvokedAt(b, 1) : p < q

C27_Witness ==
    /\ Len(calls) = 2
    /\ \A id \in 1..2 :
          /\ calls[id].method = "log" /\ calls[id].n0 = 2
          /\ calls[id].pc = "done"
          /\ calls[id].level = "warn"
    /\ logger.transports = <<"ok", "ok">>

(***************************************************************************)
(* C28: delivery order is not preserved for the transports after the       *)
(* first.  With two registered transports and two log calls A then B both  *)
(* suspended on the first transport, the first transport's result for B    *)
(* can settle before its result for A, and the second transport is then    *)
(* invoked for B while it has not been invoked for A.                      *)
(***************************************************************************)
BothSuspendedOnFirst(a, b) ==
    /\ a < b
    /\ calls[a].method = "log" /\ calls[b].method = "log"
    /\ calls[a].pc = "await" /\ calls[a].i = 1
    /\ calls[b].pc = "await" /\ calls[b].i = 1
    /\ Len(logger.transports) >= 2

C28_LaterCallCanOvertake ==
    \A a \in CallIds, b \in CallIds :
        BothSuspendedOnFirst(a, b) =>
            /\ InvokedAt(a, 2) = {} /\ InvokedAt(b, 2) = {}
            /\ ENABLED (/\ Resume(b)
                        /\ InvokedAt(b, 2)' # {}
                        /\ InvokedAt(a, 2)' = {})

\* the second transport was invoked for B before it was invoked for A
C28_Witness ==
    /\ Len(calls) = 2
    /\ calls[1].method = "log" /\ calls[2].method = "log"
    /\ InvokedAt(1, 2) # {} /\ InvokedAt(2, 2) # {}
    /\ \A p \in InvokedAt(1, 2) : \A q \in InvokedAt(2, 2) : q < p

(***************************************************************************)
(* C29: if every transport invocation eventually settles, every            *)
(* non-suppressed log call eventually resolves its promise, and at that    *)
(* point every transport in the list has been invoked for that emission.   *)
(***************************************************************************)
Issued(id) ==
    /\ id <= Len(calls)
    /\ calls[id].method = "log"
    /\ ~Suppressed(logger, calls[id].level)

Pending(id) == Issued(id) /\ Promise(calls[id]).state = "pending"

Fulfilled(id) == Issued(id) /\ Promise(calls[id]).state = "fulfilled"

\* the promise is fulfilled and the list as it is now has been served
Resolved(id) ==
    /\ Fulfilled(id)
    /\ Len(Invocations(id)) = Len(logger.transports)

C29_EveryLogResolves ==
    \A id \in 1..MaxCalls :
        /\ [](Issued(id) => <>Fulfilled(id))
        /\ Pending(id) ~> Resolved(id)

C29_Witness ==
    \E id \in CallIds :
        /\ Issued(id) /\ Resolved(id)
        /\ calls[id].n0 = 1
        /\ logger.transports = <<"rejects", "ok">>

(***************************************************************************)
(* C30: a failure of the formatting step is not isolated.  If the          *)
(* configured formatFunction throws during a non-suppressed log call, the  *)
(* promise of log is rejected, no console line is written and no transport *)
(* is invoked for that emission; the transport list and the registry are   *)
(* as they were.                                                           *)
(***************************************************************************)
C30_FormatFailureRejects ==
    logger.formatFunction = "throws" =>
        /\ logger.transports = registered
        /\ OwnRegistry(logger)
        /\ \A id \in CallIds :
              calls[id].method = "log" =>
                  IF Suppressed(logger, calls[id].level)
                  THEN Promise(calls[id]).state = "fulfilled"
                  ELSE /\ Promise(calls[id]).state = "rejected"
                       /\ EventsOf(id) = << >>

C30_Witness ==
    \E id \in CallIds :
        /\ logger.formatFunction = "throws"
        /\ calls[id].method = "log" /\ calls[id].level = "info"
        /\ calls[id].n0 = MaxTransports
        /\ calls[id].pc = "failed"
        /\ EventsOf(id) = << >>

====
